---- MODULE Spec2Model ----
(***************************************************************************)
(* A model of the kandinsky client library (package kandinsky):            *)
(* New, SetModel, GetImageUUID, CheckImage, GetImage (kandinsky.go) and    *)
(* the Image decoders ToByte, ToFile (image.go).  The remote service, the  *)
(* curl child process and the file system are the environment: each        *)
(* response they can give is an input the actions draw from a small set.   *)
(***************************************************************************)
EXTENDS Integers, Sequences, FiniteSets, TLC

VARIABLES
    k,          \* the caller's client (*Kand), or NoClient
    resolved,   \* history: the id stored by the last successful SetModel on k
    pc,         \* position of the caller: idle, inside a call, or panicked
    call,       \* history: the operation called last, its arguments and the
                \* answer of the environment to a one-step operation
    g,          \* the frame of a running GetImage: its own client and stages
    cur,        \* the frame of a running CheckImage: handle and local image
    events,     \* history: requests and sleeps of the call in progress / last call
    resps,      \* history: class and HTTP status of each status response of the
                \* CheckImage call
    truncated,  \* history: the call polled more often than the history records
    ret,        \* what the last call returned
    fs,         \* the file system: path -> file
    tasks       \* goroutines sharing the client k: task -> position and locals

vars == <<k, resolved, pc, call, g, cur, events, resps, truncated, ret, fs, tasks>>

----------------------------------------------------------------------------
(* Bounds of the model *)

\* number of status polls of one CheckImage call that the history records
MaxPolls == 3

\* the lowest and the highest HTTP status the endpoints answer with
\* the longest byte sequence encoded for ToByte
MaxBytes == 3

MinCode == 100
MaxCode == 599

----------------------------------------------------------------------------
(* Errors: kandinsky.go:16-30.  An error value is a record so that the     *)
(* composed API error of GetImageUUID (kandinsky.go:337) keeps its parts.  *)

Err(kind) == [kind |-> kind, status |-> 0, error |-> "", message |-> ""]

nil == Err("nil")
ErrEmptyKey == Err("ErrEmptyKey")
ErrEmptySecret == Err("ErrEmptySecret")
ErrEmptyPrompt == Err("ErrEmptyPrompt")
ErrEmptyUUID == Err("ErrEmptyUUID")
ErrAuth == Err("ErrAuth")
ErrTaskNotCompleted == Err("ErrTaskNotCompleted")
ErrNotFound == Err("ErrNotFound")
ErrUnauthorized == Err("ErrUnauthorized")
ErrInternalServerError == Err("ErrInternalServerError")
ErrUnsupportedMediaType == Err("ErrUnsupportedMediaType")
ErrBadRequest == Err("ErrBadRequest")
\* errors of the libraries the code calls
ErrTransport == Err("net/http: client.Do")
ErrReadBody == Err("io.ReadAll")
ErrJSON == Err("encoding/json: Unmarshal")
ErrExec == Err("os/exec: Run")
ErrCorruptInput == Err("encoding/base64: CorruptInputError")
ErrOpenFile == Err("os: OpenFile")
ErrWriteFile == Err("os: Write")

StatusBadRequest == 400
StatusUnauthorized == 401
StatusNotFound == 404
StatusInternalServerError == 500
StatusUnsupportedMediaType == 415

\* a classification that takes every 5xx status for a server error
checkStatusCode_Every5xx(code) ==
    CASE code = StatusBadRequest -> ErrBadRequest
      [] code = StatusUnauthorized -> ErrUnauthorized
      [] code = StatusNotFound -> ErrNotFound
      [] code >= StatusInternalServerError -> ErrInternalServerError
      [] code = StatusUnsupportedMediaType -> ErrUnsupportedMediaType
      [] OTHER -> nil

\* a classification that also takes 502, 503 and 504 for a server error
checkStatusCode_Gateway(code) ==
    CASE code = StatusBadRequest -> ErrBadRequest
      [] code = StatusUnauthorized -> ErrUnauthorized
      [] code = StatusNotFound -> ErrNotFound
      [] code \in {StatusInternalServerError, 502, 503, 504} -> ErrInternalServerError
      [] code = StatusUnsupportedMediaType -> ErrUnsupportedMediaType
      [] OTHER -> nil

\* checkStatusCode: the switch of kandinsky.go:404-419
checkStatusCode(code) ==
    CASE code = StatusBadRequest -> ErrBadRequest
      [] code = StatusUnauthorized -> ErrUnauthorized
      [] code = StatusNotFound -> ErrNotFound
      [] code = StatusInternalServerError -> ErrInternalServerError
      [] code = StatusUnsupportedMediaType -> ErrUnsupportedMediaType
      [] OTHER -> nil

----------------------------------------------------------------------------
(* JSON.  A JSON value is [t |-> type, v |-> value]; an object's v is a    *)
(* function from the keys present to JSON values.  A response body is      *)
(* [read, valid, word, json]: whether io.ReadAll succeeds, whether the     *)
(* text is valid JSON, whether the text holds the substring "error"        *)
(* outside of an object key, and the parsed value.                         *)

JStr(s) == [t |-> "str", v |-> s]
JNum(n) == [t |-> "num", v |-> n]
JBool(b) == [t |-> "bool", v |-> b]
JArr(s) == [t |-> "arr", v |-> s]
JObj(f) == [t |-> "obj", v |-> f]

Body(j) == [read |-> TRUE, valid |-> TRUE, word |-> FALSE, json |-> j]
Malformed == [read |-> TRUE, valid |-> FALSE, word |-> FALSE, json |-> JObj(<<>>)]
ErrorPage == [read |-> TRUE, valid |-> FALSE, word |-> TRUE, json |-> JObj(<<>>)]
BrokenBody == [read |-> FALSE, valid |-> FALSE, word |-> FALSE, json |-> JObj(<<>>)]

\* Has(o, f): key f is present in JSON object o
Has(o, f) == f \in DOMAIN o.v

\* encoding/json on one struct field: an absent key leaves the field as it
\* is, a value of the right type replaces it, a value of another type is
\* skipped and makes Unmarshal return an UnmarshalTypeError at the end.
Field(o, f, t, old) ==
    IF Has(o, f) /\ o.v[f].t = t THEN o.v[f].v ELSE old

Mismatch(o, f, t) == Has(o, f) /\ o.v[f].t # t

----------------------------------------------------------------------------
(* The data types: kandinsky.go:60-167, image.go:9-18 *)

ZeroModel == [ID |-> 0, Name |-> "", Version |-> 0, Type |-> ""]

NoClient ==
    [made |-> FALSE, key |-> "", secret |-> "", authURL |-> "", genURL |-> "",
     checkURL |-> "", Model |-> ZeroModel]

ZeroParams ==
    [Width |-> 0, Height |-> 0, NumImages |-> 0, Type |-> "", Style |-> "",
     NegativePrompt |-> "", GenerateParams |-> [Query |-> ""]]

ZeroUUID == [ID |-> "", Status |-> ""]

ZeroImage == [UUID |-> "", Status |-> "", Images |-> <<>>, Censored |-> FALSE]

ZeroErrResponse ==
    [Timestamp |-> "", Status |-> 0, Error |-> "", Message |-> "", Path |-> ""]

\* the URLs New sets (kandinsky.go:182-184) and the one GetImageUUID's curl
\* command names (kandinsky.go:308)
AuthURL == "https://api-key.fusionbrain.ai/key/api/v1/models"
GenURL == "https://api-key.fusionbrain.ai/key/api/v1/text2image/run"
CheckURL == "https://api-key.fusionbrain.ai/key/api/v1/text2image/status/"

\* One entry of the history of a call: a request sent, a sleep, or a
\* response body closed.
Ev(kind, url, id) ==
    [kind |-> kind, url |-> url, id |-> id, model_id |-> 0, params |-> ZeroParams,
     secs |-> 0]

EvPost(url, model_id, p) ==
    [kind |-> "POST", url |-> url, id |-> "", model_id |-> model_id, params |-> p,
     secs |-> 0]

\* time.Sleep(time.Second * 10) (kandinsky.go:399)
SleepSeconds == 10

EvSleep == [Ev("SLEEP", "", "") EXCEPT !.secs = SleepSeconds]

----------------------------------------------------------------------------
(* New: kandinsky.go:170-189 *)

New_SecretFirst(key, secret) ==
    IF secret = "" THEN [k |-> NoClient, err |-> ErrEmptySecret]
    ELSE IF key = "" THEN [k |-> NoClient, err |-> ErrEmptyKey]
    ELSE [k |-> [made |-> TRUE, key |-> key, secret |-> secret,
                 authURL |-> AuthURL, genURL |-> GenURL, checkURL |-> CheckURL,
                 Model |-> ZeroModel],
          err |-> nil]

New(key, secret) ==
    IF key = "" THEN [k |-> NoClient, err |-> ErrEmptyKey]
    ELSE IF secret = "" THEN [k |-> NoClient, err |-> ErrEmptySecret]
    ELSE [k |-> [made |-> TRUE, key |-> key, secret |-> secret,
                 authURL |-> AuthURL, genURL |-> GenURL, checkURL |-> CheckURL,
                 Model |-> ZeroModel],
          err |-> nil]

----------------------------------------------------------------------------
(* SetModel: kandinsky.go:241-278 *)

\* json.Unmarshal of one array element into a Model (kandinsky.go:87-96)
UnmarshalModel(o) ==
    [ID |-> Field(o, "id", "num", 0),
     Name |-> Field(o, "name", "str", ""),
     Version |-> Field(o, "version", "num", 0),
     Type |-> Field(o, "type", "str", "")]

ModelMismatch(o) ==
    \/ o.t # "obj"
    \/ o.t = "obj" /\ (\/ Mismatch(o, "id", "num") \/ Mismatch(o, "name", "str")
                       \/ Mismatch(o, "version", "num") \/ Mismatch(o, "type", "str"))

\* json.Unmarshal(b, &m) with m := []Model{} (kandinsky.go:265-273)
UnmarshalModels(body) ==
    IF ~body.valid THEN [m |-> <<>>, err |-> ErrJSON]
    ELSE IF body.json.t # "arr" THEN [m |-> <<>>, err |-> ErrJSON]
    ELSE LET a == body.json.v
         IN [m |-> [i \in 1..Len(a) |->
                        IF a[i].t = "obj" THEN UnmarshalModel(a[i]) ELSE ZeroModel],
             err |-> IF \E i \in 1..Len(a) : ModelMismatch(a[i])
                     THEN ErrJSON ELSE nil]

\* The result of SetModel on client c when the models endpoint answers resp:
\* the client afterwards, the returned id and error, whether it panicked,
\* and the requests it made.  The deferred res.Body.Close() (kandinsky.go:256)
\* runs on every exit after client.Do succeeded, a panic included.
SetModelResult(c, resp) ==
    LET get == Ev("GET", c.authURL, "")
        close == Ev("CLOSE", c.authURL, "")
        fail(e, evs) == [k |-> c, id |-> 0, err |-> e, panic |-> FALSE, events |-> evs]
    IN IF ~resp.ok THEN fail(ErrTransport, <<get>>)
       ELSE IF checkStatusCode(resp.code) # nil
            THEN fail(checkStatusCode(resp.code), <<get, close>>)
       ELSE IF ~resp.body.read THEN fail(ErrReadBody, <<get, close>>)
       ELSE LET u == UnmarshalModels(resp.body)
            IN IF u.err # nil THEN fail(u.err, <<get, close>>)
               ELSE IF Len(u.m) = 0
                    THEN \* m[0] on an empty slice: index out of range
                         [k |-> c, id |-> 0, err |-> nil, panic |-> TRUE,
                          events |-> <<get, close>>]
               ELSE [k |-> [c EXCEPT !.Model = u.m[1]], id |-> u.m[1].ID,
                     err |-> nil, panic |-> FALSE, events |-> <<get, close>>]

----------------------------------------------------------------------------
(* GetImageUUID: kandinsky.go:286-347 *)

\* defaults that fill in the type only when the caller left it empty
setDefaultParams_TypeKept(p) ==
    [p EXCEPT !.Width = IF p.Width = 0 THEN 128 ELSE p.Width,
              !.Height = IF p.Height = 0 THEN 128 ELSE p.Height,
              !.NumImages = IF p.NumImages = 0 THEN 1 ELSE p.NumImages,
              !.Type = IF p.Type = "" THEN "GENERATE" ELSE p.Type]

\* setDefaultParams: kandinsky.go:422-436
setDefaultParams(p) ==
    [p EXCEPT !.Width = IF p.Width = 0 THEN 128 ELSE p.Width,
              !.Height = IF p.Height = 0 THEN 128 ELSE p.Height,
              !.NumImages = IF p.NumImages = 0 THEN 1 ELSE p.NumImages,
              !.Type = "GENERATE"]

\* strings.Contains(s, "error") on the output of curl (kandinsky.go:330):
\* the word is in the text, or it is a key of the JSON object
ContainsError(body) ==
    body.word \/ (body.valid /\ body.json.t = "obj" /\ Has(body.json, "error"))

\* json.Unmarshal(out.Bytes(), &e) with e := ErrResponse{} (kandinsky.go:331-335)
UnmarshalErrResponse(body) ==
    IF ~body.valid \/ body.json.t # "obj" THEN [e |-> ZeroErrResponse, err |-> ErrJSON]
    ELSE LET o == body.json
         IN [e |-> [Timestamp |-> Field(o, "timestamp", "str", ""),
                    Status |-> Field(o, "status", "num", 0),
                    Error |-> Field(o, "error", "str", ""),
                    Message |-> Field(o, "message", "str", ""),
                    Path |-> Field(o, "path", "str", "")],
             err |-> IF \/ Mismatch(o, "timestamp", "str") \/ Mismatch(o, "status", "num")
                        \/ Mismatch(o, "error", "str") \/ Mismatch(o, "message", "str")
                        \/ Mismatch(o, "path", "str")
                     THEN ErrJSON ELSE nil]

\* json.Unmarshal(out.Bytes(), &u) with u := UUID{} (kandinsky.go:341-344)
UnmarshalUUID(body) ==
    IF ~body.valid \/ body.json.t # "obj" THEN [u |-> ZeroUUID, err |-> ErrJSON]
    ELSE LET o == body.json
         IN [u |-> [ID |-> Field(o, "uuid", "str", ""),
                    Status |-> Field(o, "status", "str", "")],
             err |-> IF Mismatch(o, "uuid", "str") \/ Mismatch(o, "status", "str")
                     THEN ErrJSON ELSE nil]

\* errors.New("error from Kandinsky API: status " + ...) (kandinsky.go:337)
ApiError(e) ==
    [kind |-> "error from Kandinsky API", status |-> e.Status, error |-> e.Error,
     message |-> e.Message]

\* GetImageUUID from the serialization on (kandinsky.go:301-346): the
\* command is run with the parameters p1 and the model id of c1, and its
\* output is parsed.
GetImageUUIDSubmit(c1, p1, out) ==
    LET post == EvPost(GenURL, c1.Model.ID, p1)
        res(u, e) == [k |-> c1, u |-> u, err |-> e, events |-> <<post>>]
    IN IF ~out.run THEN res(ZeroUUID, ErrExec)
       ELSE IF ContainsError(out.body)
            THEN LET r == UnmarshalErrResponse(out.body)
                 IN IF r.err # nil THEN res(ZeroUUID, r.err)
                    ELSE res(ZeroUUID, ApiError(r.e))
       ELSE LET r == UnmarshalUUID(out.body)
            IN res(r.u, r.err)

\* The result of GetImageUUID(p) on client c when the curl child process
\* ends as out = [run, body]: the client afterwards, the returned UUID and
\* error, and the requests made.
GetImageUUIDResult_CheckLate(c, p, out) ==
    LET c1 == IF c.Model.ID = 0 THEN [c EXCEPT !.Model.ID = 4] ELSE c
        p1 == setDefaultParams(p)
        r == GetImageUUIDSubmit(c1, p1, out)
    IN IF r.err # nil THEN r
       ELSE IF p1.GenerateParams.Query = ""
            THEN [k |-> c1, u |-> ZeroUUID, err |-> ErrEmptyPrompt, events |-> r.events]
       ELSE r

\* a GetImageUUID that checks the sizes and the count itself, before submitting
GetImageUUIDResult_Validated(c, p, out) ==
    LET c1 == IF c.Model.ID = 0 THEN [c EXCEPT !.Model.ID = 4] ELSE c
        p1 == setDefaultParams(p)
    IN IF p1.GenerateParams.Query = ""
       THEN [k |-> c1, u |-> ZeroUUID, err |-> ErrEmptyPrompt, events |-> <<>>]
       ELSE IF p1.Width < 128 \/ p1.Height < 128 \/ p1.NumImages > 1
            THEN [k |-> c1, u |-> ZeroUUID, err |-> ErrBadRequest, events |-> <<>>]
       ELSE GetImageUUIDSubmit(c1, p1, out)

GetImageUUIDResult(c, p, out) ==
    LET c1 == IF c.Model.ID = 0 THEN [c EXCEPT !.Model.ID = 4] ELSE c
        p1 == setDefaultParams(p)
    IN IF p1.GenerateParams.Query = ""
       THEN [k |-> c1, u |-> ZeroUUID, err |-> ErrEmptyPrompt, events |-> <<>>]
       ELSE GetImageUUIDSubmit(c1, p1, out)

----------------------------------------------------------------------------
(* CheckImage: kandinsky.go:350-401 *)

\* json.Unmarshal(b, &image) into the image of the previous iterations
\* (kandinsky.go:388): only the keys present in the body are assigned.
UnmarshalImage(body, image) ==
    IF ~body.valid \/ body.json.t # "obj" THEN [image |-> image, err |-> ErrJSON]
    ELSE LET o == body.json
         IN [image |->
                 [UUID |-> Field(o, "uuid", "str", image.UUID),
                  Status |-> Field(o, "status", "str", image.Status),
                  Images |-> Field(o, "images", "arr", image.Images),
                  Censored |-> Field(o, "censored", "bool", image.Censored)],
             err |-> IF \/ Mismatch(o, "uuid", "str") \/ Mismatch(o, "status", "str")
                        \/ Mismatch(o, "images", "arr") \/ Mismatch(o, "censored", "bool")
                     THEN ErrJSON ELSE nil]

\* One iteration of the loop of CheckImage from the response on
\* (kandinsky.go:372-399): the local image afterwards, and either the
\* return (done, with err) or the sleep that follows.
CheckImageStep_FailRetried(image, resp) ==
    IF ~resp.ok THEN [image |-> image, done |-> TRUE, err |-> ErrTransport]
    ELSE IF checkStatusCode(resp.code) # nil
         THEN [image |-> image, done |-> TRUE, err |-> checkStatusCode(resp.code)]
    ELSE IF ~resp.body.read THEN [image |-> image, done |-> TRUE, err |-> ErrReadBody]
    ELSE LET r == UnmarshalImage(resp.body, image)
         IN IF r.err # nil THEN [image |-> r.image, done |-> TRUE, err |-> r.err]
            ELSE IF r.image.Status = "DONE"
                 THEN [image |-> r.image, done |-> TRUE, err |-> nil]
            ELSE [image |-> r.image, done |-> FALSE, err |-> nil]

CheckImageStep_ErrorRetried(image, resp) ==
    IF ~resp.ok THEN [image |-> image, done |-> TRUE, err |-> ErrTransport]
    ELSE IF checkStatusCode(resp.code) = ErrInternalServerError
         THEN [image |-> image, done |-> FALSE, err |-> nil]
    ELSE IF checkStatusCode(resp.code) # nil
         THEN [image |-> image, done |-> TRUE, err |-> checkStatusCode(resp.code)]
    ELSE IF ~resp.body.read THEN [image |-> image, done |-> TRUE, err |-> ErrReadBody]
    ELSE LET r == UnmarshalImage(resp.body, image)
         IN IF r.err # nil THEN [image |-> r.image, done |-> TRUE, err |-> r.err]
            ELSE IF r.image.Status = "DONE"
                 THEN [image |-> r.image, done |-> TRUE, err |-> nil]
            ELSE IF r.image.Status = "FAIL"
                 THEN [image |-> r.image, done |-> TRUE, err |-> ErrTaskNotCompleted]
            ELSE [image |-> r.image, done |-> FALSE, err |-> nil]

CheckImageStep_TransportRetried(image, resp) ==
    IF ~resp.ok THEN [image |-> image, done |-> FALSE, err |-> nil]
    ELSE IF checkStatusCode(resp.code) # nil
         THEN [image |-> image, done |-> TRUE, err |-> checkStatusCode(resp.code)]
    ELSE IF ~resp.body.read THEN [image |-> image, done |-> TRUE, err |-> ErrReadBody]
    ELSE LET r == UnmarshalImage(resp.body, image)
         IN IF r.err # nil THEN [image |-> r.image, done |-> TRUE, err |-> r.err]
            ELSE IF r.image.Status = "DONE"
                 THEN [image |-> r.image, done |-> TRUE, err |-> nil]
            ELSE IF r.image.Status = "FAIL"
                 THEN [image |-> r.image, done |-> TRUE, err |-> ErrTaskNotCompleted]
            ELSE [image |-> r.image, done |-> FALSE, err |-> nil]

CheckImageStep_DoneRetried(image, resp) ==
    IF ~resp.ok THEN [image |-> image, done |-> TRUE, err |-> ErrTransport]
    ELSE IF checkStatusCode(resp.code) # nil
         THEN [image |-> image, done |-> TRUE, err |-> checkStatusCode(resp.code)]
    ELSE IF ~resp.body.read THEN [image |-> image, done |-> TRUE, err |-> ErrReadBody]
    ELSE LET r == UnmarshalImage(resp.body, image)
         IN IF r.err # nil THEN [image |-> r.image, done |-> TRUE, err |-> r.err]
            ELSE IF r.image.Status = "FAIL"
                 THEN [image |-> r.image, done |-> TRUE, err |-> ErrTaskNotCompleted]
            ELSE [image |-> r.image, done |-> FALSE, err |-> nil]

CheckImageStep(image, resp) ==
    IF ~resp.ok THEN [image |-> image, done |-> TRUE, err |-> ErrTransport]
    ELSE IF checkStatusCode(resp.code) # nil
         THEN [image |-> image, done |-> TRUE, err |-> checkStatusCode(resp.code)]
    ELSE IF ~resp.body.read THEN [image |-> image, done |-> TRUE, err |-> ErrReadBody]
    ELSE LET r == UnmarshalImage(resp.body, image)
         IN IF r.err # nil THEN [image |-> r.image, done |-> TRUE, err |-> r.err]
            ELSE IF r.image.Status = "DONE"
                 THEN [image |-> r.image, done |-> TRUE, err |-> nil]
            ELSE IF r.image.Status = "FAIL"
                 THEN [image |-> r.image, done |-> TRUE, err |-> ErrTaskNotCompleted]
            ELSE [image |-> r.image, done |-> FALSE, err |-> nil]

\* The entry of CheckImage (kandinsky.go:351-355): TRUE when the call
\* returns ErrEmptyUUID before the loop
CheckImageRejects_Never(u) == FALSE

CheckImageRejects(u) == u.ID = ""

----------------------------------------------------------------------------
(* base64.StdEncoding.  An encoded text is a sequence of symbols: 0..63    *)
(* the alphabet A-Z a-z 0-9 + /, Pad the character '=', Junk a character   *)
(* outside the alphabet.  A byte is 0..255.                                *)

Pad == 64
Junk == 65

IsAlpha(c) == c >= 0 /\ c < 64

\* a quantum of four symbols the decoder accepts; padding only in the last
QuantumOK(q, last) ==
    /\ IsAlpha(q[1]) /\ IsAlpha(q[2])
    /\ \/ IsAlpha(q[3]) /\ IsAlpha(q[4])
       \/ last /\ IsAlpha(q[3]) /\ q[4] = Pad
       \/ last /\ q[3] = Pad /\ q[4] = Pad

\* the decoder returns no CorruptInputError on s
Base64Valid(s) ==
    /\ Len(s) % 4 = 0
    /\ \A i \in 1..(Len(s) \div 4) :
           QuantumOK(SubSeq(s, 4 * i - 3, 4 * i), i = Len(s) \div 4)

DecodeQuantum(q) ==
    LET v3 == IF q[3] = Pad THEN 0 ELSE q[3]
        v4 == IF q[4] = Pad THEN 0 ELSE q[4]
        b1 == (q[1] * 4 + q[2] \div 16) % 256
        b2 == ((q[2] % 16) * 16 + v3 \div 4) % 256
        b3 == ((v3 % 4) * 64 + v4) % 256
    IN IF q[3] = Pad THEN <<b1>> ELSE IF q[4] = Pad THEN <<b1, b2>> ELSE <<b1, b2, b3>>

RECURSIVE Base64Decode(_)
\* the bytes the decoder writes for a valid text s
Base64Decode(s) ==
    IF Len(s) < 4 THEN <<>>
    ELSE DecodeQuantum(SubSeq(s, 1, 4)) \o Base64Decode(SubSeq(s, 5, Len(s)))

Zeros(n) == [i \in 1..n |-> 0]

\* the four symbols that encode one to three bytes
EncodeGroup(x) ==
    LET b2 == IF Len(x) > 1 THEN x[2] ELSE 0
        b3 == IF Len(x) > 2 THEN x[3] ELSE 0
        c1 == x[1] \div 4
        c2 == (x[1] % 4) * 16 + b2 \div 16
        c3 == (b2 % 16) * 4 + b3 \div 64
        c4 == b3 % 64
    IN IF Len(x) = 1 THEN <<c1, c2, Pad, Pad>>
       ELSE IF Len(x) = 2 THEN <<c1, c2, c3, Pad>>
       ELSE <<c1, c2, c3, c4>>

RECURSIVE Base64Encode(_)
\* the standard encoding of the bytes x, as the service produces it
Base64Encode(x) ==
    IF Len(x) = 0 THEN <<>>
    ELSE IF Len(x) <= 3 THEN EncodeGroup(x)
    ELSE EncodeGroup(SubSeq(x, 1, 3)) \o Base64Encode(SubSeq(x, 4, Len(x)))

----------------------------------------------------------------------------
(* The decoders and the savers: image.go:21-97 *)

NilBytes == [isNil |-> TRUE, data |-> <<>>]
NilFile == [isNil |-> TRUE, name |-> ""]
NoFile == [exists |-> FALSE, data |-> <<>>]
TempFile == ".temp.png"

\* ToByte (image.go:21-31): the buffer b has the length of the encoded
\* text and is returned whole
ToByteResult(i) ==
    IF Len(i.Images) = 0
    THEN [b |-> NilBytes, err |-> nil, panic |-> TRUE]
    ELSE LET src == i.Images[1]
         IN IF ~Base64Valid(src)
            THEN [b |-> NilBytes, err |-> ErrCorruptInput, panic |-> FALSE]
            ELSE LET d == Base64Decode(src)
                 IN [b |-> [isNil |-> FALSE, data |-> d \o Zeros(Len(src) - Len(d))],
                     err |-> nil, panic |-> FALSE]

\* ToFile (image.go:34-51) on the file system files, when the environment
\* env = [open, write, n] lets os.OpenFile succeed or not and lets f.Write
\* succeed or fail after n bytes
ToFileResult(i, files, env) ==
    LET f == [isNil |-> FALSE, name |-> TempFile]
        opened == [files EXCEPT ![TempFile] = [exists |-> TRUE, data |-> <<>>]]
    IN IF ~env.open
       THEN [fs |-> files, f |-> NilFile, err |-> ErrOpenFile, panic |-> FALSE]
       ELSE IF Len(i.Images) = 0
            THEN [fs |-> opened, f |-> NilFile, err |-> nil, panic |-> TRUE]
       ELSE IF ~Base64Valid(i.Images[1])
            THEN [fs |-> opened, f |-> f, err |-> ErrCorruptInput, panic |-> FALSE]
       ELSE LET data == Base64Decode(i.Images[1])
                part == SubSeq(data, 1, IF env.n < Len(data) THEN env.n ELSE Len(data))
            IN IF ~env.write
               THEN [fs |-> [opened EXCEPT ![TempFile].data = part], f |-> f,
                     err |-> ErrWriteFile, panic |-> FALSE]
               ELSE [fs |-> [opened EXCEPT ![TempFile].data = data], f |-> f,
                     err |-> nil, panic |-> FALSE]

\* a saver that does not look at the error of f.Write
SaveTo_WriteIgnored(ext, i, name, path, files, env) ==
    LET file == path \o name \o ext
        opened == [files EXCEPT ![file] = [exists |-> TRUE, data |-> <<>>]]
    IN IF ~env.open
       THEN [fs |-> files, err |-> ErrOpenFile, panic |-> FALSE, closed |-> TRUE]
       ELSE IF Len(i.Images) = 0
            THEN [fs |-> opened, err |-> nil, panic |-> TRUE, closed |-> TRUE]
       ELSE IF ~Base64Valid(i.Images[1])
            THEN [fs |-> opened, err |-> ErrCorruptInput, panic |-> FALSE, closed |-> TRUE]
       ELSE LET data == Base64Decode(i.Images[1])
                part == SubSeq(data, 1, IF env.n < Len(data) THEN env.n ELSE Len(data))
            IN [fs |-> [opened EXCEPT ![file].data = IF env.write THEN data ELSE part],
                err |-> nil, panic |-> FALSE, closed |-> TRUE]

\* The body SavePNGTo and SaveJPGTo share (image.go:54-74, 77-97) on the
\* file system files: the file path+name+ext is opened (created or
\* truncated) first, f.Close is deferred, and only then Images[0] is read
\* and decoded.  closed: the deferred Close has run when the call ends.
SaveTo(ext, i, name, path, files, env) ==
    LET file == path \o name \o ext
        opened == [files EXCEPT ![file] = [exists |-> TRUE, data |-> <<>>]]
    IN IF ~env.open
       THEN [fs |-> files, err |-> ErrOpenFile, panic |-> FALSE, closed |-> TRUE]
       ELSE IF Len(i.Images) = 0
            THEN [fs |-> opened, err |-> nil, panic |-> TRUE, closed |-> TRUE]
       ELSE IF ~Base64Valid(i.Images[1])
            THEN [fs |-> opened, err |-> ErrCorruptInput, panic |-> FALSE, closed |-> TRUE]
       ELSE LET data == Base64Decode(i.Images[1])
                part == SubSeq(data, 1, IF env.n < Len(data) THEN env.n ELSE Len(data))
            IN IF ~env.write
               THEN [fs |-> [opened EXCEPT ![file].data = part], err |-> ErrWriteFile,
                     panic |-> FALSE, closed |-> TRUE]
               ELSE [fs |-> [opened EXCEPT ![file].data = data], err |-> nil,
                     panic |-> FALSE, closed |-> TRUE]

\* SavePNGTo: image.go:54-74
SavePNGToResult(i, name, path, files, env) == SaveTo(".png", i, name, path, files, env)

\* SaveJPGTo: image.go:77-97
SaveJPGToResult(i, name, path, files, env) == SaveTo(".jpg", i, name, path, files, env)

----------------------------------------------------------------------------
(* The inputs: what the caller passes and what the environment answers *)

Keys == {"", "key"}
Secrets == {"", "secret"}

Prm(w, h, n, t, q) ==
    [Width |-> w, Height |-> h, NumImages |-> n, Type |-> t, Style |-> "KANDINSKY",
     NegativePrompt |-> "", GenerateParams |-> [Query |-> q]]

\* the parameters GetImageUUID is called with
ParamsInputs ==
    {Prm(0, 0, 0, "", q) : q \in {"", "black cat"}}
    \cup {Prm(127, 1024, 1, "GENERATE", "black cat"),
          Prm(1024, 127, 1, "GENERATE", "black cat"),
          Prm(1024, 1024, 2, "WRONG", "black cat"),
          Prm(1024, 1024, 1, "GENERATE", "black cat")}

\* the parameters GetImage is called with
GetImageInputs == {Prm(1024, 1024, 1, "GENERATE", q) : q \in {"", "black cat"}}

\* the handles CheckImage is called with
UUIDInputs == {ZeroUUID, [ID |-> "u1", Status |-> "INITIAL"]}

\* base64 texts: "", "aGk=" (hi), "TWFu" (Man), "aGk" (padding missing), "!!!!"
TextEmpty == <<>>
TextHi == <<26, 6, 36, Pad>>
TextMan == <<19, 22, 5, 46>>
TextUnpadded == <<26, 6, 36>>
TextJunk == <<Junk, Junk, Junk, Junk>>

\* the HTTP statuses checkStatusCode maps to an error, and two it does not
MappedCodes == {400, 401, 404, 415, 500}
OtherCodes == {200, 503}

\* every three-digit HTTP status
StatusCodes == MinCode..MaxCode

Transport == [ok |-> FALSE, code |-> 0, body |-> BrokenBody]
Http(code, body) == [ok |-> TRUE, code |-> code, body |-> body]

Obj(keys, o) == JObj([f \in keys |-> o[f]])

\* bodies of the models endpoint
ModelDesc(id) ==
    JObj([id |-> JNum(id), name |-> JStr("Kandinsky"), version |-> JNum(3),
          type |-> JStr("TEXT2IMAGE")])

\* a descriptor without the key "id"
ModelDescNoID ==
    JObj([name |-> JStr("Kandinsky"), version |-> JNum(3), type |-> JStr("TEXT2IMAGE")])

ModelBodies ==
    {Malformed, BrokenBody,
     Body(JArr(<<>>)),
     Body(JArr(<<ModelDesc(0)>>)),
     Body(JArr(<<ModelDescNoID>>)),
     Body(JArr(<<ModelDesc(5), ModelDesc(4)>>)),
     Body(JArr(<<JObj([id |-> JStr("4")])>>)),
     Body(JObj([id |-> JNum(4)]))}

\* an answer's body matters only under a status that is not mapped
ModelResponses ==
    {Transport}
    \cup {Http(c, Malformed) : c \in MappedCodes}
    \cup {Http(200, b) : b \in ModelBodies}
    \cup {Http(503, b) : b \in {ErrorPage, Body(JArr(<<ModelDesc(5), ModelDesc(4)>>))}}

\* outputs of the curl command of GetImageUUID
ErrorBody ==
    Body(JObj([timestamp |-> JStr("2024-03-04T13:46:55"), status |-> JNum(400),
               error |-> JStr("Bad Request"), message |-> JStr("bad parameters"),
               path |-> JStr("/key/api/v1/text2image/run")]))

RunBodies ==
    {Malformed, ErrorPage, ErrorBody,
     Body(JObj([uuid |-> JStr("u1"), status |-> JStr("INITIAL")])),
     Body(JObj([uuid |-> JStr("u1"), status |-> JNum(5)])),
     Body(JObj([status |-> JStr("INITIAL")])),
     Body(JObj([error |-> JNum(1), uuid |-> JStr("u1")]))}

RunOutputs == {[run |-> FALSE, body |-> Malformed]} \cup {[run |-> TRUE, body |-> b] : b \in RunBodies}

\* bodies of the status endpoint: objects with some of the keys, with each
\* status value, and bodies that do not parse
FullStatus(st) ==
    [uuid |-> JStr("u1"), status |-> st, images |-> JArr(<<TextHi>>),
     censored |-> JBool(TRUE)]

StatusValues == {JStr("INITIAL"), JStr("DONE"), JStr("FAIL"), JNum(5)}

StatusKeys ==
    {{}, {"status"}, {"uuid", "status"}, {"images", "censored"},
     {"uuid", "status", "images", "censored"}}

StatusBodies ==
    {Malformed, BrokenBody}
    \cup {Body(Obj(keys, FullStatus(st))) : keys \in StatusKeys, st \in StatusValues}

StatusResponses ==
    {Transport}
    \cup {Http(c, Malformed) : c \in MappedCodes}
    \cup {Http(200, b) : b \in StatusBodies}
    \cup {Http(503, b) :
              b \in {ErrorPage, Body(JObj(FullStatus(JStr("DONE")))),
                     Body(JObj(FullStatus(JStr("INITIAL"))))}}

\* the byte sequences the service encodes
ByteValues == {0, 104, 255}
RECURSIVE SeqsUpTo(_)
SeqsUpTo(n) ==
    IF n = 0 THEN {<<>>}
    ELSE LET shorter == SeqsUpTo(n - 1)
         IN shorter \cup {Append(x, b) : x \in {y \in shorter : Len(y) = n - 1}, b \in ByteValues}
ByteSeqs == SeqsUpTo(MaxBytes)

\* the images the decoders are called on
ImageInputs ==
    {ZeroImage} \cup
    {[UUID |-> "u1", Status |-> "DONE", Images |-> <<t>>, Censored |-> FALSE] :
         t \in {TextEmpty, TextHi, TextMan, TextUnpadded, TextJunk}
               \cup {Base64Encode(x) : x \in ByteSeqs}}

\* the images ToFile is called on
FileInputs ==
    {ZeroImage} \cup
    {[UUID |-> "u1", Status |-> "DONE", Images |-> <<t>>, Censored |-> FALSE] :
         t \in {TextEmpty, TextHi, TextJunk}}

\* the outcomes of os.OpenFile and f.Write: the open fails, everything
\* succeeds, or the write fails after n bytes
FileEnvs ==
    {[open |-> FALSE, write |-> TRUE, n |-> 0], [open |-> TRUE, write |-> TRUE, n |-> 0]}
    \cup {[open |-> TRUE, write |-> FALSE, n |-> n] : n \in 0..1}

\* the outcomes of os.OpenFile and f.Write for SavePNGTo and SaveJPGTo: a
\* failed write has written nothing
SaveEnvs == {env \in FileEnvs : env.n = 0}

\* the names and paths SavePNGTo and SaveJPGTo are called with
SaveArgs ==
    {[name |-> "img", path |-> "out/"], [name |-> "", path |-> "out/"],
     [name |-> "img", path |-> ""]}

Paths == {TempFile} \cup {a.path \o a.name \o ext : a \in SaveArgs, ext \in {".png", ".jpg"}}

\* The class of a status response, as the service means it: a transport
\* failure, a mapped HTTP status, a body that does not parse into an Image,
\* the terminal statuses, or anything else (the task is still pending).
Class(resp) ==
    IF ~resp.ok \/ (resp.code \notin MappedCodes /\ ~resp.body.read) THEN "transport"
    ELSE IF resp.code \in MappedCodes THEN "http"
    ELSE IF \/ ~resp.body.valid
            \/ resp.body.json.t # "obj"
            \/ \E f \in DOMAIN resp.body.json.v :
                   resp.body.json.v[f].t #
                       (CASE f = "images" -> "arr" [] f = "censored" -> "bool" [] OTHER -> "str")
         THEN "parse"
    ELSE IF Has(resp.body.json, "status") /\ resp.body.json.v["status"].v \in {"DONE", "FAIL"}
         THEN resp.body.json.v["status"].v
    ELSE "pending"

----------------------------------------------------------------------------
(* The state machine.  The caller is single-threaded: it calls one          *)
(* operation at a time.  CheckImage and GetImage take several steps (one    *)
(* per request or sleep); the other operations are one step each.           *)

NoRet ==
    [op |-> "", err |-> nil, nonnil |-> FALSE, id |-> 0, u |-> ZeroUUID,
     image |-> ZeroImage, b |-> NilBytes, f |-> NilFile, open |-> {}, errs |-> <<>>,
     last |-> Transport]

NoFrame ==
    [active |-> FALSE, k |-> NoClient, params |-> ZeroParams, stages |-> <<>>, errs |-> <<>>]

NoCheck == [u |-> ZeroUUID, image |-> ZeroImage]

\* two goroutines that use the same client
Tasks == {1, 2}

\* a task: its position, the m[0] SetModel parsed, the id its last SetModel
\* returned and the id its last GetImageUUID submitted (-1: none yet), and
\* whether it accessed Model while the other task was inside an operation
NoTask ==
    [pc |-> "idle", m |-> ZeroModel, resolved |-> -1, submitted |-> -1, raced |-> FALSE]

NoCall ==
    [op |-> "", key |-> "", secret |-> "", p |-> ZeroParams, u |-> ZeroUUID,
     i |-> ZeroImage, resp |-> Transport, out |-> [run |-> FALSE, body |-> Malformed],
     env |-> [open |-> FALSE, write |-> FALSE, n |-> 0], name |-> "", path |-> ""]

Init ==
    /\ k = NoClient
    /\ resolved = -1
    /\ pc = "idle"
    /\ call = NoCall
    /\ g = NoFrame
    /\ cur = NoCheck
    /\ events = <<>>
    /\ resps = <<>>
    /\ truncated = FALSE
    /\ ret = NoRet
    /\ fs = [p \in Paths |-> NoFile]
    /\ tasks = [t \in Tasks |-> NoTask]

\* a call starts with an empty history
Fresh ==
    /\ resps' = <<>>
    /\ truncated' = FALSE

\* k, err := New(key, secret)
CallNew ==
    \E key \in Keys, secret \in Secrets :
        LET r == New(key, secret)
        IN /\ pc = "idle"
           /\ call' = [NoCall EXCEPT !.op = "New", !.key = key, !.secret = secret]
           /\ k' = r.k
           /\ resolved' = -1
           /\ events' = <<>>
           /\ Fresh
           /\ ret' = [NoRet EXCEPT !.op = "New", !.err = r.err, !.nonnil = r.k.made]
           /\ UNCHANGED <<pc, g, cur, fs, tasks>>

\* id, err := k.SetModel(), the models endpoint answering resp
SetModelWith(resp) ==
    LET r == SetModelResult(k, resp)
    IN /\ pc = "idle"
       /\ k.made
       /\ call' = [NoCall EXCEPT !.op = "SetModel", !.resp = resp]
       /\ k' = r.k
       /\ resolved' = IF r.err = nil /\ ~r.panic THEN r.id ELSE resolved
       /\ pc' = IF r.panic THEN "panicked" ELSE "idle"
       /\ events' = r.events
       /\ Fresh
       /\ ret' = IF r.panic THEN NoRet
                 ELSE [NoRet EXCEPT !.op = "SetModel", !.err = r.err, !.id = r.id]
       /\ UNCHANGED <<g, cur, fs, tasks>>

\* id, err := k.SetModel()
CallSetModel == \E resp \in ModelResponses : SetModelWith(resp)

\* u, err := k.GetImageUUID(p)
CallGetImageUUID ==
    \E p \in ParamsInputs, out \in RunOutputs :
        LET r == GetImageUUIDResult(k, p, out)
        IN /\ pc = "idle"
           /\ k.made
           /\ call' = [NoCall EXCEPT !.op = "GetImageUUID", !.p = p, !.out = out]
           /\ k' = r.k
           /\ events' = r.events
           /\ Fresh
           /\ ret' = [NoRet EXCEPT !.op = "GetImageUUID", !.err = r.err, !.u = r.u]
           /\ UNCHANGED <<resolved, pc, g, cur, fs, tasks>>

\* i, err := k.CheckImage(u): the entry, up to the loop
CallCheckImage ==
    \E u \in UUIDInputs :
        /\ pc = "idle"
        /\ k.made
        /\ call' = [NoCall EXCEPT !.op = "CheckImage", !.u = u]
        /\ events' = <<>>
        /\ Fresh
        /\ IF CheckImageRejects(u)
           THEN /\ ret' = [NoRet EXCEPT !.op = "CheckImage", !.err = ErrEmptyUUID]
                /\ UNCHANGED <<pc, cur>>
           ELSE /\ pc' = "poll"
                /\ cur' = [u |-> u, image |-> ZeroImage]
                /\ ret' = NoRet
        /\ UNCHANGED <<k, resolved, g, fs, tasks>>

\* the client whose CheckImage is running
Self == IF g.active THEN g.k ELSE k

\* a loop that gives up with ErrTaskNotCompleted after MaxPolls answers
Poll_Limited(resp) ==
    LET r == CheckImageStep(cur.image, resp)
        room == Len(resps) < MaxPolls
    IN /\ pc = "poll"
       /\ events' = IF room THEN Append(events, Ev("GET", Self.checkURL, cur.u.ID))
                    ELSE events
       /\ resps' = IF room THEN Append(resps, [class |-> Class(resp), code |-> resp.code])
                   ELSE resps
       /\ truncated' = (truncated \/ ~room)
       /\ IF r.done \/ ~room
          THEN /\ pc' = "idle"
               /\ cur' = NoCheck
               /\ ret' = [NoRet EXCEPT !.op = IF g.active THEN "GetImage" ELSE "CheckImage",
                                       !.err = IF r.done THEN r.err ELSE ErrTaskNotCompleted,
                                       !.image = r.image, !.last = resp,
                                       !.errs = IF g.active
                                                THEN Append(g.errs, ErrTaskNotCompleted)
                                                ELSE <<>>]
               /\ g' = IF g.active THEN [NoFrame EXCEPT !.stages = g.stages] ELSE g
          ELSE /\ pc' = "sleep"
               /\ cur' = [cur EXCEPT !.image = r.image]
               /\ UNCHANGED <<ret, g>>
       /\ UNCHANGED <<k, resolved, call, fs, tasks>>

\* a loop that forgets the cached model at every iteration
Poll_ModelReset(resp) ==
    LET r == CheckImageStep(cur.image, resp)
        room == Len(resps) < MaxPolls
    IN /\ pc = "poll"
       /\ events' = IF room THEN Append(events, Ev("GET", Self.checkURL, cur.u.ID))
                    ELSE events
       /\ resps' = IF room THEN Append(resps, [class |-> Class(resp), code |-> resp.code])
                   ELSE resps
       /\ truncated' = (truncated \/ ~room)
       /\ IF r.done
          THEN /\ pc' = "idle"
               /\ cur' = NoCheck
               /\ ret' = [NoRet EXCEPT !.op = IF g.active THEN "GetImage" ELSE "CheckImage",
                                       !.err = r.err, !.image = r.image, !.last = resp,
                                       !.errs = IF g.active THEN Append(g.errs, r.err)
                                                ELSE <<>>]
               /\ g' = IF g.active THEN [NoFrame EXCEPT !.stages = g.stages] ELSE g
          ELSE /\ pc' = "sleep"
               /\ cur' = [cur EXCEPT !.image = r.image]
               /\ UNCHANGED <<ret, g>>
       /\ k' = [k EXCEPT !.Model = ZeroModel]
       /\ UNCHANGED <<resolved, call, fs, tasks>>

\* one iteration of the loop of CheckImage: the GET and what follows the
\* response, up to the return or the sleep
Poll(resp) ==
    LET r == CheckImageStep(cur.image, resp)
        room == Len(resps) < MaxPolls
    IN /\ pc = "poll"
       /\ events' = IF room THEN Append(events, Ev("GET", Self.checkURL, cur.u.ID))
                    ELSE events
       /\ resps' = IF room THEN Append(resps, [class |-> Class(resp), code |-> resp.code])
                   ELSE resps
       /\ truncated' = (truncated \/ ~room)
       /\ IF r.done
          THEN /\ pc' = "idle"
               /\ cur' = NoCheck
               /\ ret' = [NoRet EXCEPT !.op = IF g.active THEN "GetImage" ELSE "CheckImage",
                                       !.err = r.err, !.image = r.image, !.last = resp,
                                       !.errs = IF g.active THEN Append(g.errs, r.err)
                                                ELSE <<>>]
               /\ g' = IF g.active THEN [NoFrame EXCEPT !.stages = g.stages] ELSE g
          ELSE /\ pc' = "sleep"
               /\ cur' = [cur EXCEPT !.image = r.image]
               /\ UNCHANGED <<ret, g>>
       /\ UNCHANGED <<k, resolved, call, fs, tasks>>

\* a poll answered by a terminal outcome of the service
PollTerminal == \E resp \in StatusResponses : Class(resp) # "pending" /\ Poll(resp)

\* a poll answered while the task is pending
PollPending == \E resp \in StatusResponses : Class(resp) = "pending" /\ Poll(resp)

\* time.Sleep(time.Second * 10)
Sleep ==
    /\ pc = "sleep"
    /\ pc' = "poll"
    /\ events' = IF truncated THEN events ELSE Append(events, EvSleep)
    /\ UNCHANGED <<k, resolved, call, g, cur, resps, truncated, ret, fs, tasks>>

----------------------------------------------------------------------------
(* GetImage: kandinsky.go:192-227 *)

\* local checks that look at the prompt before the key and the secret
GetImageRejects_PromptFirst(key, secret, params) ==
    IF params.GenerateParams.Query = "" THEN ErrEmptyPrompt
    ELSE IF key = "" THEN ErrEmptyKey
    ELSE IF secret = "" THEN ErrEmptySecret
    ELSE New(key, secret).err

\* the local checks and New (kandinsky.go:193-209): the error GetImage
\* returns before any stage runs, or nil
GetImageRejects(key, secret, params) ==
    IF key = "" THEN ErrEmptyKey
    ELSE IF secret = "" THEN ErrEmptySecret
    ELSE IF params.GenerateParams.Query = "" THEN ErrEmptyPrompt
    ELSE New(key, secret).err

GetImageReturn(e, stages, errs) ==
    /\ pc' = "idle"
    /\ g' = [NoFrame EXCEPT !.stages = stages]
    /\ ret' = [NoRet EXCEPT !.op = "GetImage", !.err = e, !.errs = errs]

\* i, err := GetImage(key, secret, params): the entry, up to SetModel
CallGetImage ==
    \E key \in Keys, secret \in Secrets, params \in GetImageInputs :
        LET e == GetImageRejects(key, secret, params)
        IN /\ pc = "idle"
           /\ call' = [NoCall EXCEPT !.op = "GetImage", !.key = key, !.secret = secret,
                                     !.p = params]
           /\ events' = <<>>
           /\ Fresh
           /\ IF e # nil
              THEN GetImageReturn(e, <<>>, <<>>)
              ELSE /\ pc' = "gi_SetModel"
                   /\ g' = [active |-> TRUE, k |-> New(key, secret).k,
                            params |-> params, stages |-> <<"New">>, errs |-> <<nil>>]
                   /\ ret' = NoRet
           /\ UNCHANGED <<k, resolved, cur, fs, tasks>>

\* a GetImage that goes on to GetImageUUID whatever SetModel returned
GetImageSetModel_ErrorIgnored ==
    \E resp \in ModelResponses :
        LET r == SetModelResult(g.k, resp)
            st == Append(g.stages, "SetModel")
            es == Append(g.errs, r.err)
        IN /\ pc = "gi_SetModel"
           /\ events' = events \o r.events
           /\ IF r.panic
              THEN /\ pc' = "panicked"
                   /\ g' = [g EXCEPT !.stages = st]
                   /\ UNCHANGED ret
              ELSE /\ pc' = "gi_GetImageUUID"
                   /\ g' = [g EXCEPT !.k = r.k, !.stages = st, !.errs = es]
                   /\ UNCHANGED ret
           /\ UNCHANGED <<k, resolved, call, cur, resps, truncated, fs, tasks>>

\* _, err = k.SetModel() inside GetImage (kandinsky.go:211-214)
GetImageSetModel ==
    \E resp \in ModelResponses :
        LET r == SetModelResult(g.k, resp)
            st == Append(g.stages, "SetModel")
            es == Append(g.errs, r.err)
        IN /\ pc = "gi_SetModel"
           /\ events' = events \o r.events
           /\ IF r.panic
              THEN /\ pc' = "panicked"
                   /\ g' = [g EXCEPT !.stages = st]
                   /\ UNCHANGED ret
              ELSE IF r.err # nil
                   THEN GetImageReturn(r.err, st, es)
                   ELSE /\ pc' = "gi_GetImageUUID"
                        /\ g' = [g EXCEPT !.k = r.k, !.stages = st, !.errs = es]
                        /\ UNCHANGED ret
           /\ UNCHANGED <<k, resolved, call, cur, resps, truncated, fs, tasks>>

\* u, err := k.GetImageUUID(params) inside GetImage, and the entry of
\* k.CheckImage(u) (kandinsky.go:216-221)
GetImageGetImageUUID ==
    \E out \in RunOutputs :
        LET r == GetImageUUIDResult(g.k, g.params, out)
            st == Append(g.stages, "GetImageUUID")
            es == Append(g.errs, r.err)
        IN /\ pc = "gi_GetImageUUID"
           /\ events' = events \o r.events
           /\ IF r.err # nil
              THEN /\ GetImageReturn(r.err, st, es)
                   /\ UNCHANGED cur
              ELSE IF CheckImageRejects(r.u)
                   THEN /\ GetImageReturn(ErrEmptyUUID, Append(st, "CheckImage"),
                                          Append(es, ErrEmptyUUID))
                        /\ UNCHANGED cur
                   ELSE /\ pc' = "poll"
                        /\ g' = [g EXCEPT !.k = r.k, !.stages = Append(st, "CheckImage"),
                                          !.errs = es]
                        /\ cur' = [u |-> r.u, image |-> ZeroImage]
                        /\ UNCHANGED ret
           /\ UNCHANGED <<k, resolved, call, resps, truncated, fs, tasks>>

----------------------------------------------------------------------------
(* The decoders, called on an image the caller holds *)

\* b, err := i.ToByte()
CallToByte ==
    \E i \in ImageInputs :
        LET r == ToByteResult(i)
        IN /\ pc = "idle"
           /\ call' = [NoCall EXCEPT !.op = "ToByte", !.i = i]
           /\ pc' = IF r.panic THEN "panicked" ELSE "idle"
           /\ events' = <<>>
           /\ Fresh
           /\ ret' = IF r.panic THEN NoRet
                     ELSE [NoRet EXCEPT !.op = "ToByte", !.err = r.err, !.b = r.b]
           /\ UNCHANGED <<k, resolved, g, cur, fs, tasks>>

\* f, err := i.ToFile()
CallToFile ==
    \E i \in FileInputs, env \in FileEnvs :
        LET r == ToFileResult(i, fs, env)
        IN /\ pc = "idle"
           /\ call' = [NoCall EXCEPT !.op = "ToFile", !.i = i, !.env = env]
           /\ pc' = IF r.panic THEN "panicked" ELSE "idle"
           /\ events' = <<>>
           /\ Fresh
           /\ fs' = r.fs
           /\ ret' = IF r.panic THEN NoRet
                     ELSE [NoRet EXCEPT !.op = "ToFile", !.err = r.err, !.f = r.f,
                                        !.open = IF r.f.isNil THEN {} ELSE {r.f.name}]
           /\ UNCHANGED <<k, resolved, g, cur, tasks>>

\* err := i.SavePNGTo(name, path)
CallSavePNGTo ==
    \E i \in FileInputs, a \in SaveArgs, env \in SaveEnvs :
        LET r == SavePNGToResult(i, a.name, a.path, fs, env)
        IN /\ pc = "idle"
           /\ call' = [NoCall EXCEPT !.op = "SavePNGTo", !.i = i, !.name = a.name,
                                     !.path = a.path, !.env = env]
           /\ pc' = IF r.panic THEN "panicked" ELSE "idle"
           /\ events' = <<>>
           /\ Fresh
           /\ fs' = r.fs
           /\ ret' = IF r.panic THEN NoRet
                     ELSE [NoRet EXCEPT !.op = "SavePNGTo", !.err = r.err,
                                        !.open = IF r.closed THEN {} ELSE {a.path \o a.name \o ".png"}]
           /\ UNCHANGED <<k, resolved, g, cur, tasks>>

\* err := i.SaveJPGTo(name, path)
CallSaveJPGTo ==
    \E i \in FileInputs, a \in SaveArgs, env \in SaveEnvs :
        LET r == SaveJPGToResult(i, a.name, a.path, fs, env)
        IN /\ pc = "idle"
           /\ call' = [NoCall EXCEPT !.op = "SaveJPGTo", !.i = i, !.name = a.name,
                                     !.path = a.path, !.env = env]
           /\ pc' = IF r.panic THEN "panicked" ELSE "idle"
           /\ events' = <<>>
           /\ Fresh
           /\ fs' = r.fs
           /\ ret' = IF r.panic THEN NoRet
                     ELSE [NoRet EXCEPT !.op = "SaveJPGTo", !.err = r.err,
                                        !.open = IF r.closed THEN {} ELSE {a.path \o a.name \o ".jpg"}]
           /\ UNCHANGED <<k, resolved, g, cur, tasks>>

----------------------------------------------------------------------------

\* The client: the operations of kandinsky.go.  They share no state with
\* the decoders of image.go, which are checked under DecoderSpec.
Next ==
    \/ CallNew
    \/ CallSetModel
    \/ CallGetImageUUID
    \/ CallCheckImage
    \/ PollTerminal
    \/ PollPending
    \/ Sleep
    \/ CallGetImage
    \/ GetImageSetModel
    \/ GetImageGetImageUUID

Spec == Init /\ [][Next]_vars

\* The decoders: the operations of image.go
DecoderNext ==
    \/ CallToByte
    \/ CallToFile

DecoderSpec == Init /\ [][DecoderNext]_vars

\* The savers of image.go.  They write files of their own: no decoder
\* touches a file another one writes.
SaveNext ==
    \/ CallSavePNGTo
    \/ CallSaveJPGTo

SaveSpec == Init /\ [][SaveNext]_vars

\* The classification of the HTTP status: SetModel and one poll of
\* CheckImage, the endpoint answering with any status and a body that parses
TwoModels == Body(JArr(<<ModelDesc(5), ModelDesc(4)>>))
DoneBody == Body(JObj(FullStatus(JStr("DONE"))))

\* the answers of the two endpoints, one of each status
AnyStatusModels == {Http(code, TwoModels) : code \in StatusCodes}
AnyStatusDone == {Http(code, DoneBody) : code \in StatusCodes}

SetModelAnyStatus == \E resp \in AnyStatusModels : SetModelWith(resp)

PollAnyStatus == \E resp \in AnyStatusDone : Poll(resp)

StatusNext ==
    \/ CallNew
    \/ SetModelAnyStatus
    \/ CallCheckImage
    \/ PollAnyStatus

StatusSpec == Init /\ [][StatusNext]_vars

\* CheckImage under a service that never gives a terminal answer
PendingNext ==
    \/ CallNew
    \/ CallSetModel
    \/ CallCheckImage
    \/ PollPending
    \/ Sleep

PendingSpec == Init /\ [][PendingNext]_vars

----------------------------------------------------------------------------
(* Two goroutines on one client.  SetModel and GetImageUUID taken apart   *)
(* into their accesses to k.Model (kandinsky.go:275-277, 290-292, 308-309): *)
(* the code takes no lock, so the accesses of the two tasks interleave      *)
(* freely.  The assignment of the struct k.Model = m[0] is not atomic: the  *)
(* word ID and the other fields are stored one after the other.             *)

\* the answers of the models endpoint to the two tasks
OtherModel ==
    JObj([id |-> JNum(4), name |-> JStr("Kandinsky 2"), version |-> JNum(2),
          type |-> JStr("TEXT2IMAGE")])

RaceAnswers == {TwoModels, Body(JArr(<<OtherModel>>))}

Other(t) == CHOOSE o \in Tasks : o # t

\* the other task is inside an operation
Overlaps(t) == tasks[Other(t)].pc # "idle"

TaskFrame == UNCHANGED <<resolved, pc, call, g, cur, events, resps, truncated, ret, fs>>

\* SetModel up to the parsed answer (kandinsky.go:242-273)
SetModelFetch(t) ==
    \E body \in RaceAnswers :
        /\ k.made
        /\ tasks[t].pc = "idle"
        /\ tasks' = [tasks EXCEPT ![t].pc = "sm_id", ![t].m = UnmarshalModels(body).m[1],
                                  ![t].raced = FALSE]
        /\ UNCHANGED k
        /\ TaskFrame

\* a SetModel whose store waits until the other task is outside its operation
SetModelWriteID_Locked(t) ==
    /\ tasks[t].pc = "sm_id"
    /\ ~Overlaps(t)
    /\ k' = [k EXCEPT !.Model.ID = tasks[t].m.ID]
    /\ tasks' = [tasks EXCEPT ![t].pc = "sm_rest", ![t].raced = @ \/ Overlaps(t)]
    /\ TaskFrame

\* k.Model = m[0] (kandinsky.go:275): the store of the field ID
SetModelWriteID(t) ==
    /\ tasks[t].pc = "sm_id"
    /\ k' = [k EXCEPT !.Model.ID = tasks[t].m.ID]
    /\ tasks' = [tasks EXCEPT ![t].pc = "sm_rest", ![t].raced = @ \/ Overlaps(t)]
    /\ TaskFrame

\* k.Model = m[0] (kandinsky.go:275): the store of the other fields
SetModelWriteRest(t) ==
    /\ tasks[t].pc = "sm_rest"
    /\ k' = [k EXCEPT !.Model = [tasks[t].m EXCEPT !.ID = k.Model.ID]]
    /\ tasks' = [tasks EXCEPT ![t].pc = "sm_ret", ![t].raced = @ \/ Overlaps(t)]
    /\ TaskFrame

\* return k.Model.ID, nil (kandinsky.go:277): the field is read again
SetModelReturn(t) ==
    /\ tasks[t].pc = "sm_ret"
    /\ tasks' = [tasks EXCEPT ![t].pc = "idle", ![t].resolved = k.Model.ID,
                              ![t].raced = @ \/ Overlaps(t)]
    /\ UNCHANGED k
    /\ TaskFrame

\* if k.Model.ID == 0 (kandinsky.go:290), in a GetImageUUID with a prompt
GetImageUUIDCheck(t) ==
    /\ k.made
    /\ tasks[t].pc = "idle"
    /\ tasks' = [tasks EXCEPT ![t].pc = IF k.Model.ID = 0 THEN "gu_default" ELSE "gu_submit",
                              ![t].raced = Overlaps(t)]
    /\ UNCHANGED k
    /\ TaskFrame

\* k.Model.ID = 4 (kandinsky.go:291)
GetImageUUIDDefault(t) ==
    /\ tasks[t].pc = "gu_default"
    /\ k' = [k EXCEPT !.Model.ID = 4]
    /\ tasks' = [tasks EXCEPT ![t].pc = "gu_submit", ![t].raced = @ \/ Overlaps(t)]
    /\ TaskFrame

\* the command is built with k.Model.ID (kandinsky.go:308-309) and run
GetImageUUIDSend(t) ==
    /\ tasks[t].pc = "gu_submit"
    /\ tasks' = [tasks EXCEPT ![t].pc = "idle", ![t].submitted = k.Model.ID,
                              ![t].raced = @ \/ Overlaps(t)]
    /\ UNCHANGED k
    /\ TaskFrame

TaskStep(t) ==
    \/ SetModelFetch(t)
    \/ SetModelWriteID(t)
    \/ SetModelWriteRest(t)
    \/ SetModelReturn(t)
    \/ GetImageUUIDCheck(t)
    \/ GetImageUUIDDefault(t)
    \/ GetImageUUIDSend(t)

\* the client both tasks hold was made by New("key", "secret")
RaceInit ==
    /\ k = New("key", "secret").k
    /\ resolved = -1
    /\ pc = "idle"
    /\ call = NoCall
    /\ g = NoFrame
    /\ cur = NoCheck
    /\ events = <<>>
    /\ resps = <<>>
    /\ truncated = FALSE
    /\ ret = NoRet
    /\ fs = [p \in Paths |-> NoFile]
    /\ tasks = [t \in Tasks |-> NoTask]

RaceNext == \E t \in Tasks : TaskStep(t)

RaceSpec == RaceInit /\ [][RaceNext]_vars

\* The caller's thread runs: a sleep ends.  The service eventually answers
\* a poll with a terminal outcome.
FairSpec == Spec /\ WF_vars(Sleep) /\ SF_vars(PollTerminal)

----------------------------------------------------------------------------
(* Properties *)

\* a call of CheckImage (directly or as the last stage of GetImage) has returned
CheckReturned ==
    /\ pc = "idle"
    /\ ret.op \in {"CheckImage", "GetImage"}
    /\ resps # <<>>

InLoop == pc \in {"poll", "sleep"}

\* the GETs to the status endpoint and the sleeps of the call, in order
StatusEvents ==
    SelectSeq(events, LAMBDA e : e.kind = "SLEEP" \/ (e.kind = "GET" /\ e.url = CheckURL))

CountKind(kind) == Len(SelectSeq(StatusEvents, LAMBDA e : e.kind = kind))

\* GET, SLEEP, GET, ..., starting with a GET
Alternating ==
    \A i \in 1..Len(StatusEvents) :
        StatusEvents[i].kind = IF i % 2 = 1 THEN "GET" ELSE "SLEEP"

AllPending(n) == \A i \in 1..n : resps[i].class = "pending"

LastClass == resps[Len(resps)].class

\* the requests of the call other than those to the status endpoint
NetworkCalls == SelectSeq(events, LAMBDA e : e.kind \in {"GET", "POST"})

\* C1: when the status endpoint answers n times with a non-terminal status
\* and then DONE, CheckImage returns a nil error and an Image with Status
\* DONE after exactly n+1 GETs and n sleeps of 10 seconds, GETs and sleeps
\* alternating and starting with a GET; while the call is still in its loop
\* no DONE answer has been received, so nothing follows the DONE answer.
C1_DoneAfterPending ==
    /\ (CheckReturned /\ ~truncated /\ LastClass = "DONE" /\ AllPending(Len(resps) - 1))
           => /\ ret.err = nil
              /\ ret.image.Status = "DONE"
              /\ CountKind("GET") = Len(resps)
              /\ CountKind("SLEEP") = Len(resps) - 1
              /\ Alternating
              /\ StatusEvents[Len(StatusEvents)].kind = "GET"
              /\ \A i \in 1..Len(StatusEvents) :
                     StatusEvents[i].kind = "SLEEP" => StatusEvents[i].secs = 10
    /\ (InLoop /\ ~truncated) => \A i \in 1..Len(resps) : resps[i].class # "DONE"

C1_Witness ==
    /\ CheckReturned /\ ~truncated /\ ret.op = "CheckImage"
    /\ Len(resps) = 3 /\ LastClass = "DONE" /\ AllPending(2)
    /\ ret.err = nil

\* C2: when a status response carries status FAIL, CheckImage returns
\* ErrTaskNotCompleted with that response: the FAIL answer is the last
\* thing that happened (no sleep and no GET after it), however many
\* non-terminal answers came before.
C2_FailImmediately ==
    /\ (CheckReturned /\ ~truncated /\ LastClass = "FAIL")
           => /\ ret.err = ErrTaskNotCompleted
              /\ AllPending(Len(resps) - 1)
              /\ Len(StatusEvents) = 2 * Len(resps) - 1
              /\ StatusEvents[Len(StatusEvents)].kind = "GET"
    /\ (InLoop /\ ~truncated) => \A i \in 1..Len(resps) : resps[i].class # "FAIL"

C2_Witness ==
    /\ CheckReturned /\ ~truncated /\ Len(resps) = 2
    /\ resps[1].class = "pending" /\ LastClass = "FAIL"
    /\ ret.err = ErrTaskNotCompleted

\* C3: CheckImage called with a handle whose ID is empty returns
\* ErrEmptyUUID without entering the loop and without any HTTP request.
C3_EmptyUUID ==
    (call.op = "CheckImage" /\ call.u.ID = "")
        => /\ pc = "idle"
           /\ ret.op = "CheckImage"
           /\ ret.err = ErrEmptyUUID
           /\ Len(NetworkCalls) = 0

C3_Witness ==
    /\ call.op = "CheckImage" /\ call.u.ID = "" /\ pc = "idle" /\ ret.err = ErrEmptyUUID

\* the error the claim names for a mapped HTTP status
MappedError(code) ==
    CASE code = 400 -> ErrBadRequest
      [] code = 401 -> ErrUnauthorized
      [] code = 404 -> ErrNotFound
      [] code = 415 -> ErrUnsupportedMediaType
      [] code = 500 -> ErrInternalServerError

HardClasses == {"http", "transport", "parse"}

\* C4: during polling a response with a mapped HTTP status, or a transport
\* or parse failure, makes CheckImage return the corresponding error at
\* that iteration: it is the last thing that happened (no sleep, no GET
\* after it), whatever number of pending responses came before.
C4_HardErrorAborts ==
    /\ (CheckReturned /\ ~truncated /\ LastClass \in HardClasses)
           => /\ ret.err = (CASE LastClass = "http" -> MappedError(resps[Len(resps)].code)
                              [] LastClass = "parse" -> ErrJSON
                              [] LastClass = "transport" ->
                                     IF resps[Len(resps)].code = 0 THEN ErrTransport
                                     ELSE ErrReadBody)
              /\ AllPending(Len(resps) - 1)
              /\ Len(StatusEvents) = 2 * Len(resps) - 1
              /\ StatusEvents[Len(StatusEvents)].kind = "GET"
    /\ (InLoop /\ ~truncated) => \A i \in 1..Len(resps) : resps[i].class \notin HardClasses

C4_Witness ==
    /\ CheckReturned /\ ~truncated /\ Len(resps) = 3 /\ AllPending(2)
    /\ LastClass = "http" /\ resps[3].code = 500
    /\ ret.err = ErrInternalServerError

\* C5: if the service eventually answers a poll with a terminal outcome
\* (DONE, FAIL, a mapped HTTP status, a transport or parse failure), a
\* CheckImage in its loop eventually returns, and it returns at the first
\* such poll: inside the loop every answer so far was a pending one.
C5_Terminates ==
    /\ InLoop ~> (pc = "idle")
    /\ [](InLoop /\ ~truncated => AllPending(Len(resps)))

C5_Witness ==
    /\ pc = "idle" /\ ret.op = "CheckImage" /\ truncated /\ ret.err = nil

\* C6: GetImageUUID with an empty prompt returns ErrEmptyPrompt and an
\* empty UUID and performs no network call.
C6_EmptyPrompt ==
    (pc = "idle" /\ call.op = "GetImageUUID"
        /\ setDefaultParams(call.p).GenerateParams.Query = "")
        => /\ ret.err = ErrEmptyPrompt
           /\ ret.u = ZeroUUID
           /\ Len(NetworkCalls) = 0

C6_Witness ==
    /\ pc = "idle" /\ call.op = "GetImageUUID" /\ call.p.GenerateParams.Query = ""
    /\ call.out.run /\ ret.err = ErrEmptyPrompt

\* C7: New returns (nil, ErrEmptyKey) for an empty key, (nil,
\* ErrEmptySecret) for a non-empty key and an empty secret, and a client
\* with a nil error otherwise, with no network access in any case.
C7_New ==
    (pc = "idle" /\ call.op = "New")
        => /\ ret.op = "New"
           /\ Len(NetworkCalls) = 0
           /\ IF call.key = "" THEN ret.err = ErrEmptyKey /\ ~ret.nonnil /\ ~k.made
              ELSE IF call.secret = "" THEN ret.err = ErrEmptySecret /\ ~ret.nonnil /\ ~k.made
              ELSE /\ ret.err = nil /\ ret.nonnil /\ k.made
                   /\ k.key = call.key /\ k.secret = call.secret

C7_Witness ==
    /\ pc = "idle" /\ call.op = "New" /\ call.key = "" /\ call.secret = ""
    /\ ret.err = ErrEmptyKey

\* C8: no operation returns a partial result together with an error:
\* whenever SetModel, GetImageUUID, CheckImage, GetImage, ToByte or ToFile
\* returns a non-nil error, the result beside it is the zero value.
C8_NoPartialResult ==
    (pc = "idle" /\ ret.err # nil)
        => /\ ret.id = 0
           /\ ret.u = ZeroUUID
           /\ ret.image = ZeroImage
           /\ ret.b = NilBytes
           /\ ret.f = NilFile

\* the submissions of the call
Posts == SelectSeq(events, LAMBDA e : e.kind = "POST")

\* C9: the model id of every GetImageUUID submission is the id stored by
\* the most recent successful SetModel on the client, or 4 if none has
\* succeeded; GetImageUUID and CheckImage send nothing to the models
\* endpoint.
C9_SubmittedModel ==
    /\ call.op = "GetImageUUID"
           => \A i \in 1..Len(Posts) :
                  Posts[i].model_id = IF resolved = -1 THEN 4 ELSE resolved
    /\ call.op \in {"GetImageUUID", "CheckImage"}
           => \A i \in 1..Len(events) : events[i].url # AuthURL

\* the answers of the models endpoint with no model: an empty array, or a
\* first element whose id is 0 or missing
NoModelAnswers ==
    {Http(200, b) :
        b \in {Body(JArr(<<>>)), Body(JArr(<<ModelDesc(0)>>)), Body(JArr(<<ModelDescNoID>>))}}

\* C10: SetModel fails with ErrAuth, without panicking and without
\* storing a model, when the models endpoint answers with an empty array
\* or with a first element whose id is 0 or missing.
C10_NoModelIsErrAuth ==
    [][(pc = "idle" /\ call'.op = "SetModel" /\ call'.resp \in NoModelAnswers)
           => /\ pc' = "idle"
              /\ ret'.err = ErrAuth
              /\ k' = k]_vars

\* a call of SetModel has returned, the endpoint having answered with a status
SetModelAnswered == pc = "idle" /\ call.op = "SetModel" /\ call.resp.ok

\* a call of CheckImage has returned after one poll
OnePoll == CheckReturned /\ ret.op = "CheckImage" /\ Len(resps) = 1

\* C11: the status classification of SetModel and CheckImage maps 400 to
\* ErrBadRequest, 401 to ErrUnauthorized, 404 to ErrNotFound, 415 to
\* ErrUnsupportedMediaType and 500 to ErrInternalServerError; under every
\* other status it reports no error and the body is parsed (SetModel
\* returns the id of the first model, CheckImage the Image of the body).
C11_StatusMapping ==
    /\ SetModelAnswered =>
           IF call.resp.code \in MappedCodes
           THEN ret.err = MappedError(call.resp.code) /\ ret.id = 0
           ELSE ret.err = nil /\ ret.id = 5
    /\ OnePoll =>
           IF resps[1].code \in MappedCodes
           THEN ret.err = MappedError(resps[1].code) /\ ret.image = ZeroImage
           ELSE ret.err = nil /\ ret.image.Status = "DONE"

C11_Witness ==
    /\ SetModelAnswered /\ call.resp.code = 415 /\ ret.err = ErrUnsupportedMediaType

ServerErrors == 500..599

\* C12: SetModel fails with ErrInternalServerError for every 5xx status
\* of the models endpoint (500 through 599), not only for 500.
C12_Every5xx ==
    (SetModelAnswered /\ call.resp.code \in ServerErrors)
        => ret.err = ErrInternalServerError

\* C12, amended: SetModel fails with ErrInternalServerError for the status
\* 500 only; under every other 5xx status (501 through 599) the status is
\* not an error and the body is parsed, so that a body listing models makes
\* SetModel succeed and store the first of them.
C12_Only500 ==
    (SetModelAnswered /\ call.resp.code \in ServerErrors)
        => IF call.resp.code = 500
           THEN ret.err = ErrInternalServerError /\ ret.id = 0
           ELSE ret.err = nil /\ ret.id = 5 /\ k.Model.ID = 5

C12_Witness ==
    /\ SetModelAnswered /\ call.resp.code = 503 /\ ret.err = nil /\ k.Model.ID = 5

\* a call that submits: GetImageUUID, directly or as a stage of GetImage
Submitting == call.op \in {"GetImageUUID", "GetImage"}

C14_Default1024 ==
    Submitting =>
        \A n \in 1..Len(Posts) :
            /\ call.p.Width = 0 => Posts[n].params.Width = 1024
            /\ call.p.Height = 0 => Posts[n].params.Height = 1024

\* parameters the service rejects: a non-zero width or height below 128, or
\* more than one image
OutOfRange(p) == p.Width \in 1..127 \/ p.Height \in 1..127 \/ p.NumImages > 1

\* the errors the package makes itself
LocalErrors ==
    {ErrEmptyKey, ErrEmptySecret, ErrEmptyPrompt, ErrEmptyUUID, ErrAuth,
     ErrTaskNotCompleted, ErrNotFound, ErrUnauthorized, ErrInternalServerError,
     ErrUnsupportedMediaType, ErrBadRequest}

\* the answer of the service to parameters it rejects
Rejected == [run |-> TRUE, body |-> ErrorBody]

\* C15: GetImageUUID does not validate width, height or count: called with
\* a non-empty prompt and a non-zero width or height below 128, or more than
\* one image, it submits the request with those values and returns none of
\* the package's own errors; when the service answers with its status-400
\* error the returned error is that one (status 400, Bad Request, and the
\* service's message) with an empty UUID.
C15_NoLocalValidation ==
    (pc = "idle" /\ call.op = "GetImageUUID" /\ call.p.GenerateParams.Query # ""
        /\ OutOfRange(call.p))
        => /\ Len(Posts) = 1
           /\ Posts[1].params.Width = call.p.Width
           /\ Posts[1].params.Height = call.p.Height
           /\ Posts[1].params.NumImages = call.p.NumImages
           /\ ret.err \notin LocalErrors
           /\ call.out = Rejected =>
                  /\ ret.err = [kind |-> "error from Kandinsky API", status |-> 400,
                                error |-> "Bad Request", message |-> "bad parameters"]
                  /\ ret.u = ZeroUUID

C15_Witness ==
    /\ pc = "idle" /\ call.op = "GetImageUUID" /\ call.p.Width = 127
    /\ call.out = Rejected /\ Len(Posts) = 1 /\ Posts[1].params.Width = 127
    /\ ret.err.status = 400

\* key f of JSON object o holds a value of type t
HasType(o, f, t) == Has(o, f) /\ o.v[f].t = t

\* the output of curl is a JSON object that fits the struct whose fields are
\* typed by types: no key of the struct holds a value of another type
Fits(body, types) ==
    /\ body.valid
    /\ body.json.t = "obj"
    /\ \A f \in DOMAIN types : Has(body.json, f) => body.json.v[f].t = types[f]

ErrResponseTypes ==
    [timestamp |-> "str", status |-> "num", error |-> "str", message |-> "str",
     path |-> "str"]

UUIDTypes == [uuid |-> "str", status |-> "str"]

\* a call of GetImageUUID has returned after running the command
Submitted == pc = "idle" /\ call.op = "GetImageUUID" /\ Len(Posts) = 1 /\ call.out.run

\* C16: GetImageUUID has no partial success.  If the response carries an
\* error indicator and parses, it returns the empty UUID and the error
\* composed of the reported status, label and message; if the response
\* cannot be parsed it returns an error; and it returns a nil error only
\* with a UUID whose identifier and status are those of the response, the
\* identifier being there.
C16_NoPartialSuccess ==
    Submitted =>
        LET body == call.out.body
            o == body.json
        IN /\ (ContainsError(body) /\ Fits(body, ErrResponseTypes))
                  => /\ ret.u = ZeroUUID
                     /\ ret.err = [kind |-> "error from Kandinsky API",
                                   status |-> Field(o, "status", "num", 0),
                                   error |-> Field(o, "error", "str", ""),
                                   message |-> Field(o, "message", "str", "")]
           /\ (IF ContainsError(body) THEN ~Fits(body, ErrResponseTypes)
               ELSE ~Fits(body, UUIDTypes))
                  => ret.err # nil
           /\ ret.err = nil
                  => /\ HasType(o, "uuid", "str") /\ HasType(o, "status", "str")
                     /\ ret.u = [ID |-> o.v["uuid"].v, Status |-> o.v["status"].v]
                     /\ ret.u.ID # ""

\* the error the test of CheckImage expects for a censored task
ErrCensored == Err("ErrCensored")

\* C17: when the completed task's result has the censored flag set,
\* CheckImage reports the task-outcome error ErrCensored instead of success.
C17_CensoredIsError ==
    (CheckReturned /\ LastClass = "DONE" /\ ret.image.Censored)
        => ret.err = ErrCensored

\* the errors the tests of image.go expect (declared in the copy of image.go
\* that checks its arguments)
ErrEmptyImage == Err("ErrEmptyImage")
ErrEmptyFileName == Err("ErrEmptyFileName")
ErrEmptyFilePath == Err("ErrEmptyFilePath")

ImageOps == {"ToByte", "ToFile", "SavePNGTo", "SaveJPGTo"}

\* C18: ToByte, ToFile, SavePNGTo and SaveJPGTo called on an Image with no
\* payload each return ErrEmptyImage: the call does not panic and no file
\* is created or truncated.
C18_EmptyImage ==
    [][(pc = "idle" /\ call'.op \in ImageOps /\ Len(call'.i.Images) = 0)
           => /\ pc' = "idle"
              /\ ret'.err = ErrEmptyImage
              /\ fs' = fs]_vars

\* C19: SavePNGTo and SaveJPGTo called on an Image with a payload return
\* ErrEmptyFileName when the name is empty and ErrEmptyFilePath when the
\* path is empty, before any decoding or file operation: no file is created
\* or truncated.
C19_EmptyNameOrPath ==
    [][(pc = "idle" /\ call'.op \in {"SavePNGTo", "SaveJPGTo"} /\ Len(call'.i.Images) > 0
            /\ (call'.name = "" \/ call'.path = ""))
           => /\ pc' = "idle"
              /\ ret'.err = IF call'.name = "" THEN ErrEmptyFileName ELSE ErrEmptyFilePath
              /\ fs' = fs]_vars

\* C20: for every byte sequence x, ToByte on an Image whose first payload is
\* the standard base64 encoding of x returns exactly x, with a nil error:
\* the bytes of x and nothing after them.
C20_RoundTrip ==
    (pc = "idle" /\ call.op = "ToByte" /\ Len(call.i.Images) > 0)
        => \A x \in ByteSeqs :
               call.i.Images[1] = Base64Encode(x)
                   => /\ ret.err = nil
                      /\ ret.b = [isNil |-> FALSE, data |-> x]

\* the file a call of SavePNGTo or SaveJPGTo names
Target(c) == c.path \o c.name \o (IF c.op = "SavePNGTo" THEN ".png" ELSE ".jpg")

SaveOps == {"SavePNGTo", "SaveJPGTo"}

C22_GetImageValidates ==
    (call.op = "GetImage"
        /\ (call.key = "" \/ call.secret = "" \/ call.p.GenerateParams.Query = ""))
        => /\ pc = "idle"
           /\ ret.op = "GetImage"
           /\ ret.err = (IF call.key = "" THEN ErrEmptyKey
                         ELSE IF call.secret = "" THEN ErrEmptySecret
                         ELSE ErrEmptyPrompt)
           /\ ret.image = ZeroImage
           /\ events = <<>>
           /\ g.stages = <<>>

C22_Witness ==
    /\ call.op = "GetImage" /\ call.key = "key" /\ call.secret = ""
    /\ call.p.GenerateParams.Query = "" /\ ret.err = ErrEmptySecret /\ events = <<>>

\* C23: CheckImage has no retry limit and no timeout.  While the status
\* endpoint answers with non-terminal statuses under unmapped HTTP codes,
\* the call has made one GET per answer and has not returned; a call in
\* its loop never leaves it, however many such answers it has received.
C23_NoRetryLimit ==
    /\ [](InLoop => /\ AllPending(Len(resps))
                    /\ ~truncated =>
                           CountKind("GET") = Len(resps))
    /\ [][InLoop => InLoop']_vars

C23_Witness ==
    /\ pc = "poll" /\ truncated /\ Len(resps) = MaxPolls /\ AllPending(MaxPolls)
    /\ CountKind("GET") = MaxPolls

StageOrder == <<"New", "SetModel", "GetImageUUID", "CheckImage">>

\* the requests of the call, by the stage that makes them
StageOfRequest(e) ==
    IF e.url = AuthURL THEN 2 ELSE IF e.kind = "POST" THEN 3 ELSE 4

\* the errors the stages of the call have returned so far, in order
StageErrs == IF pc = "idle" THEN ret.errs ELSE g.errs

\* C24: GetImage runs its stages in the order New, SetModel, GetImageUUID,
\* CheckImage, each at most once; a stage starts only after every earlier
\* one returned a nil error; the error GetImage returns is that of the last
\* stage it ran, and a nil error comes only after all four.  The requests
\* follow the same order: one GET of the models, one POST, then the polls.
C24_StageOrder ==
    call.op = "GetImage" =>
        /\ g.stages = SubSeq(StageOrder, 1, Len(g.stages))
        /\ Len(StageErrs) <= Len(g.stages)
        /\ \A n \in 1..Len(g.stages) : n < Len(g.stages) => StageErrs[n] = nil
        /\ \A m, n \in 1..Len(NetworkCalls) :
               m < n => /\ StageOfRequest(NetworkCalls[m]) <= StageOfRequest(NetworkCalls[n])
                        /\ StageOfRequest(NetworkCalls[n]) < 4
                               => StageOfRequest(NetworkCalls[m]) < StageOfRequest(NetworkCalls[n])
        /\ \A n \in 1..Len(NetworkCalls) : StageOfRequest(NetworkCalls[n]) <= Len(g.stages)
        /\ (pc = "idle" /\ g.stages # <<>>)
               => /\ Len(StageErrs) = Len(g.stages)
                  /\ ret.err = StageErrs[Len(StageErrs)]
                  /\ ret.err = nil => g.stages = StageOrder

C24_Witness ==
    /\ call.op = "GetImage" /\ pc = "idle" /\ g.stages = <<"New", "SetModel", "GetImageUUID">>
    /\ ret.err # nil /\ StageErrs[2] = nil /\ Len(Posts) = 1

\* a step of CheckImage called by the caller: the entry, a poll or a sleep
CheckImageStepTaken == call'.op = "CheckImage" /\ (pc = "idle" \/ InLoop)

\* C25: CheckImage changes no client state: at its entry, at every poll and
\* sleep and at its return the client (key, secret, URLs, cached Model) is
\* what it was; and each iteration makes exactly one request, a GET of the
\* status URL with the task identifier.
C25_ClientUnchanged ==
    /\ [][(CheckImageStepTaken \/ InLoop) => (k' = k /\ (g.active /\ g'.active => g'.k = g.k))]_vars
    /\ []((call.op = "CheckImage" /\ ~truncated)
              => /\ Len(NetworkCalls) = Len(resps)
                 /\ \A n \in 1..Len(NetworkCalls) :
                        /\ NetworkCalls[n].kind = "GET"
                        /\ NetworkCalls[n].url = CheckURL
                        /\ NetworkCalls[n].id = call.u.ID)

C25_Witness ==
    /\ pc = "idle" /\ call.op = "CheckImage" /\ ret.op = "CheckImage" /\ Len(resps) = 3
    /\ ~truncated /\ k.Model.ID = 5 /\ Len(NetworkCalls) = 3

\* task t is at an access to k.Model: a store, or a load
AtWrite(t) == tasks[t].pc \in {"sm_id", "sm_rest", "gu_default"}
AtRead(t) == tasks[t].pc \in {"sm_ret", "gu_submit"}

\* C26: one client used by two tasks is unsafe.  Nothing orders the
\* accesses of SetModel and GetImageUUID to the cached Model: whenever one
\* task is at a store to Model and the other at a store or a load, both
\* accesses can be taken next, in either order; and what a task submits is
\* whatever Model.ID holds at that moment, not what that task resolved.
C26_Unsynchronized ==
    /\ [](\A t \in Tasks :
              (AtWrite(t) /\ (AtWrite(Other(t)) \/ AtRead(Other(t))))
                  => ENABLED TaskStep(t) /\ ENABLED TaskStep(Other(t)))
    /\ [][\A t \in Tasks :
              tasks'[t].submitted # tasks[t].submitted
                  => tasks'[t].submitted = k.Model.ID]_vars

\* a task that resolved model 5 submits model 4, stored by the other task
\* while the first was inside its GetImageUUID
C26_Witness ==
    \E t \in Tasks :
        /\ tasks[t].pc = "idle" /\ tasks[t].resolved = 5 /\ tasks[t].submitted = 4
        /\ tasks[t].raced

\* C27: a GetImageUUID that fails with ErrEmptyPrompt leaves the client as
\* it was: the cached Model.ID is the same after the call as before (a
\* client with the unresolved id 0 still has id 0).
C27_FailedCallNoChange ==
    [][(pc = "idle" /\ call'.op = "GetImageUUID" /\ ret'.err = ErrEmptyPrompt)
           => k' = k]_vars

\* the Image a status body describes by itself: the fields it carries, and
\* the zero value for those it omits
ImageOf(body) ==
    LET o == body.json
    IN [UUID |-> IF HasType(o, "uuid", "str") THEN o.v["uuid"].v ELSE "",
        Status |-> IF HasType(o, "status", "str") THEN o.v["status"].v ELSE "",
        Images |-> IF HasType(o, "images", "arr") THEN o.v["images"].v ELSE <<>>,
        Censored |-> IF HasType(o, "censored", "bool") THEN o.v["censored"].v ELSE FALSE]

\* C28: the Image CheckImage returns on a terminal status is determined by
\* the last status response alone: its uuid, status, images and censored
\* are those of that response, and a field the response omits has the zero
\* value, whatever earlier responses carried.
C28_LastResponseOnly ==
    (CheckReturned /\ LastClass \in {"DONE", "FAIL"})
        => ret.image = ImageOf(ret.last.body)

\* the responses the call obtained (client.Do returned no error), and the
\* bodies it closed
Opened ==
    IF call.op = "SetModel" THEN (IF call.resp.ok THEN 1 ELSE 0)
    ELSE Len(SelectSeq(resps, LAMBDA r : ~(r.class = "transport" /\ r.code = 0)))

Closed == Len(SelectSeq(events, LAMBDA e : e.kind = "CLOSE"))

\* C29: when SetModel or CheckImage has returned, on success or error and
\* after any number of polls, every response it obtained has had its body
\* closed: none is left open.
C29_BodiesClosed ==
    (pc = "idle" /\ call.op \in {"SetModel", "CheckImage"} /\ ~truncated)
        => Opened - Closed = 0

FileOps == {"ToFile", "SavePNGTo", "SaveJPGTo"}

\* C30: when the base64 decoding of the payload fails, SavePNGTo, SaveJPGTo
\* and ToFile leave the file system as it was: the destination is neither
\* created nor truncated, and a file that existed keeps its contents.
C30_DecodeFailureKeepsFiles ==
    [][(pc = "idle" /\ call'.op \in FileOps
            /\ Len(call'.i.Images) > 0 /\ ~Base64Valid(call'.i.Images[1]))
           => fs' = fs]_vars

====
